---------------------------- MODULE Spec2Model ----------------------------
(***************************************************************************)
(* A model of the barbell plate calculator of src/src/App.jsx: the forward *)
(* resolution effect of CalculatorPage (target -> plates per side) and     *)
(* the total effect of ReverseCalculatorPage (plates per side -> total).   *)
(*                                                                         *)
(* Numbers.  The code computes with IEEE doubles; the model computes the   *)
(* same quantities exactly.  A weight is a record                          *)
(*     [n |-> whole thousandths, fnum |-> a, fden |-> b]                   *)
(* standing for (n + a/b)/1000 with 0 <= a < b; fden = 0 marks NaN.        *)
(* Weights of plates and bars are whole thousandths of a pound; a          *)
(* fraction appears only when a target typed in kg is divided by 0.453592. *)
(* The model's inputs stay off the places where the code's result rests on *)
(* the last bit of a double: a difference of exactly 0.01 in the tolerance *)
(* tests of lines 319 and 340, a quotient of line 329 that lies exactly    *)
(* halfway between two thousandths, and a third decimal of 5 in            *)
(* toFixed(2).                                                             *)
(*                                                                         *)
(* convertWeight on its own (SpecConvert) is computed in doubles: a double *)
(* is [m |-> significand, e |-> exponent], the significand a number of 53  *)
(* binary digits written to the base 2^15, and * and / round to nearest,   *)
(* ties to even.                                                           *)
(*                                                                         *)
(* The application (Spec) is InventoryProvider with localStorage, App and  *)
(* its three pages: a commit of React runs the effects whose dependencies  *)
(* have changed, and the handlers run between commits.  The plates of the  *)
(* reverse calculator are put on and taken off in SpecReverse.             *)
(***************************************************************************)
EXTENDS Integers, Sequences, FiniteSets, TLC

VARIABLES
    isLoading,        \* InventoryProvider: useState(true), line 28
    plates,           \* InventoryProvider: the plate list, line 26
    bars,             \* InventoryProvider: the bar list, line 27
    unit,             \* App: 'lbs' or 'kg', line 590
    targetWeight,     \* App: the target input's value, line 591
    selectedBarId,    \* CalculatorPage, line 279; ReverseCalculatorPage, line 420
    calculationType,  \* CalculatorPage, line 280
    result,           \* CalculatorPage: { plates, message }, line 281
    pc,               \* where the resolution effect of lines 290-345 stands
    runs,             \* how often the resolution effect has run on its own
    conversion,       \* a call of convertWeight and the call back
    page,             \* App: 'calculator', 'reverse' or 'inventory', line 589
    storedPlates,     \* localStorage['barbell-calculator-plates']
    storedBars,       \* localStorage['barbell-calculator-bars']
    selectedPlates,   \* ReverseCalculatorPage: plates of one side, line 419
    sidedness,        \* ReverseCalculatorPage, line 422
    totalWeight,      \* ReverseCalculatorPage, line 421
    changed,          \* what has changed since the effects last ran
    lastEvent,        \* the handler that ran last, and its arguments
    edits,            \* how many inventory items were saved or deleted
    loadoutOps        \* how often addPlate and removePlate have run on the page

\* The state of App, its pages beside the calculator, and localStorage.
appVars == <<page, storedPlates, storedBars, selectedPlates, sidedness,
             totalWeight, changed, lastEvent, edits, loadoutOps>>

vars == <<isLoading, plates, bars, unit, targetWeight, selectedBarId,
          calculationType, result, pc, runs, conversion, page, storedPlates,
          storedBars, selectedPlates, sidedness, totalWeight, changed,
          lastEvent, edits, loadoutOps>>

---------------------------------------------------------------------------
(* Bounds of the model. *)

\* Targets are drawn from the grid 0, TargetStep, ..., MaxTargetSteps * TargetStep
\* (thousandths of the display unit), next to the listed special targets.
MaxTargetSteps == 8

\* The quantity owned of each plate type of the scenario inventory.
MaxQuantity == 4

\* The resolution effect is run at most this many times on the same inputs.
MaxRuns == 2

---------------------------------------------------------------------------
(* Numbers *)

\* Thousandths in a unit: the code rounds to 3 decimals (lines 329, 332, 340).
Scale == 1000

\* 0.01, the tolerance of lines 319 and 340, in thousandths.
Tolerance == 10

\* lbsToKg = 0.453592 (line 130), in millionths.
lbsToKgMicro == 453592

Million == 1000000

\* lbsToKg as the fraction KgNum / KgDen in lowest terms: 56699 / 125000.
KgNum == lbsToKgMicro \div 8
KgDen == Million \div 8

NaN == [n |-> 0, fnum |-> 0, fden |-> 0]

IsNaN(x) == x.fden = 0

\* A whole number of thousandths as a number of the model.
Num(milli) == [n |-> milli, fnum |-> 0, fden |-> 1]

IsWhole(x) == ~IsNaN(x) /\ x.fnum = 0

\* x - k for a number x and whole thousandths k.
Minus(x, k) == IF IsNaN(x) THEN NaN ELSE [x EXCEPT !.n = x.n - k]

\* x / k for a number x and k in {1, 2}.
DividedBy(x, k) ==
    IF IsNaN(x) THEN NaN
    ELSE [n    |-> x.n \div k,
          fnum |-> (x.n % k) * x.fden + x.fnum,
          fden |-> k * x.fden]

\* x < k, false for NaN as in JavaScript.
LessThan(x, k) == ~IsNaN(x) /\ x.n < k

\* Math.abs(x) < k, false for NaN.
AbsLessThan(x, k) ==
    /\ ~IsNaN(x)
    /\ x.n < k
    /\ \/ x.n > -k
       \/ x.n = -k /\ x.fnum > 0

\* weight * lbsToKg: thousandths of a pound to thousandths of a kilogram.
TimesLbsToKg(x) ==
    IF IsNaN(x) THEN NaN
    ELSE LET a  == (x.n \div Scale) * KgNum
             q1 == a \div (KgDen \div Scale)
             r1 == a % (KgDen \div Scale)
             rest == r1 * Scale + (x.n % Scale) * KgNum
         IN  [n |-> q1 + rest \div KgDen, fnum |-> rest % KgDen, fden |-> KgDen]

\* weight / lbsToKg: thousandths of a kilogram to thousandths of a pound.
OverLbsToKg(x) ==
    IF IsNaN(x) THEN NaN
    ELSE LET a  == x.n * (KgDen \div Scale)
             q1 == a \div KgNum
             r1 == a % KgNum
         IN  [n    |-> q1 * Scale + (r1 * Scale) \div KgNum,
              fnum |-> (r1 * Scale) % KgNum,
              fden |-> KgNum]

\* convertWeight(weight, unit, baseUnit = 'lbs'), lines 129-134.
convertWeight(weight, toUnit, baseUnit) ==
    IF toUnit = "kg" /\ baseUnit = "lbs" THEN TimesLbsToKg(weight)
    ELSE IF toUnit = "lbs" /\ baseUnit = "kg" THEN OverLbsToKg(weight)
    ELSE weight

\* A number whose text has an exponent (0 < |x| < 1e-6): value + 'e3' is then
\* no number and Math.round of it is NaN.
HasExponent(x) ==
    \/ x.n = 0 /\ x.fnum > 0 /\ x.fnum * Scale < x.fden
    \/ x.n = -1 /\ (x.fden - x.fnum) * Scale < x.fden

\* roundToDecimal(value, 3), lines 136-138: Math.round rounds a half up.
roundToDecimal(value) ==
    IF IsNaN(value) \/ HasExponent(value) THEN NaN
    ELSE Num(value.n + (IF 2 * value.fnum >= value.fden THEN 1 ELSE 0))

---------------------------------------------------------------------------
(* Doubles *)

(***************************************************************************)
(* convertWeight multiplies and divides IEEE doubles.  A double that is    *)
(* not negative is a record [m |-> significand, e |-> exponent] standing   *)
(* for m * 2^e, with 2^52 <= m < 2^53, or m = 0 and e = 0 for zero.  The   *)
(* significand is a natural number written as the sequence of its digits   *)
(* to the base 2^15, lowest digit first and no leading zero digit.  The    *)
(* weights of the model are far from the largest and the smallest double,  *)
(* so overflow and subnormal numbers are left out.                         *)
(***************************************************************************)
Radix == 2 ^ 15

RadixBits == 15

SignificandBits == 53

RECURSIVE BigFromNat(_)
BigFromNat(n) ==
    IF n = 0 THEN <<>> ELSE <<n % Radix>> \o BigFromNat(n \div Radix)

Digit(a, i) == IF i <= Len(a) THEN a[i] ELSE 0

RECURSIVE BigNorm(_)
BigNorm(a) ==
    IF a = <<>> THEN <<>>
    ELSE IF a[Len(a)] = 0 THEN BigNorm(SubSeq(a, 1, Len(a) - 1)) ELSE a

RECURSIVE AddFrom(_, _, _, _)
AddFrom(a, b, i, carry) ==
    IF i > Len(a) /\ i > Len(b)
    THEN IF carry = 0 THEN <<>> ELSE <<carry>>
    ELSE LET sum == Digit(a, i) + Digit(b, i) + carry
         IN  <<sum % Radix>> \o AddFrom(a, b, i + 1, sum \div Radix)

BigAdd(a, b) == AddFrom(a, b, 1, 0)

RECURSIVE SubFrom(_, _, _, _)
SubFrom(a, b, i, borrow) ==
    IF i > Len(a) THEN <<>>
    ELSE LET difference == Digit(a, i) - Digit(b, i) - borrow
         IN  <<(difference + Radix) % Radix>>
             \o SubFrom(a, b, i + 1, IF difference < 0 THEN 1 ELSE 0)

\* a - b for a >= b.
BigSub(a, b) == BigNorm(SubFrom(a, b, 1, 0))

RECURSIVE LessFrom(_, _, _)
LessFrom(a, b, i) ==
    IF i = 0 THEN FALSE
    ELSE IF a[i] # b[i] THEN a[i] < b[i] ELSE LessFrom(a, b, i - 1)

BigLess(a, b) ==
    IF Len(a) # Len(b) THEN Len(a) < Len(b) ELSE LessFrom(a, b, Len(a))

RECURSIVE TimesDigitFrom(_, _, _, _)
TimesDigitFrom(a, d, i, carry) ==
    IF i > Len(a) THEN IF carry = 0 THEN <<>> ELSE <<carry>>
    ELSE LET product == a[i] * d + carry
         IN  <<product % Radix>>
             \o TimesDigitFrom(a, d, i + 1, product \div Radix)

RECURSIVE MulFrom(_, _, _)
MulFrom(a, b, j) ==
    IF j > Len(b) THEN <<>>
    ELSE BigAdd(TimesDigitFrom(a, b[j], 1, 0), <<0>> \o MulFrom(a, b, j + 1))

BigMul(a, b) == BigNorm(MulFrom(a, b, 1))

RECURSIVE BitsOf(_)
BitsOf(n) == IF n = 0 THEN 0 ELSE 1 + BitsOf(n \div 2)

\* The number of binary digits of a.
BitLen(a) ==
    IF a = <<>> THEN 0 ELSE RadixBits * (Len(a) - 1) + BitsOf(a[Len(a)])

\* 2^s.
BigPow2(s) ==
    [i \in 1..(s \div RadixBits + 1) |->
        IF i = s \div RadixBits + 1 THEN 2 ^ (s % RadixBits) ELSE 0]

\* The binary digit of a at 2^i.
BitAt(a, i) == (Digit(a, i \div RadixBits + 1) \div 2 ^ (i % RadixBits)) % 2

PlusBit(a, bit) == IF bit = 0 THEN a ELSE BigAdd(a, <<1>>)

\* a without its s lowest binary digits.
BigShiftRight(a, s) ==
    LET whole == s \div RadixBits
        part  == s % RadixBits
    IN  IF Len(a) <= whole THEN <<>>
        ELSE BigNorm([i \in 1..(Len(a) - whole) |->
                 a[i + whole] \div 2 ^ part
                 + (Digit(a, i + whole + 1) % 2 ^ part) * 2 ^ (RadixBits - part)])

\* The largest of estimate, estimate - 1 and estimate - 2 whose product
\* with d is at most cur.
QuotientDigit(cur, d, estimate) ==
    IF ~BigLess(cur, BigNorm(TimesDigitFrom(d, estimate, 1, 0)))
    THEN estimate
    ELSE IF ~BigLess(cur, BigNorm(TimesDigitFrom(d, estimate - 1, 1, 0)))
         THEN estimate - 1
         ELSE estimate - 2

RECURSIVE DivFrom(_, _, _)
\* Long division to the base 2^15: the quotient and the remainder by d of n
\* without its digits below the j-th, for d with a leading digit of at least
\* 2^14.  The digit of the quotient is estimated from the two leading digits
\* of the running remainder and the leading digit of d; the estimate is at
\* most 2 too large.
DivFrom(n, d, j) ==
    IF j > Len(n) THEN [q |-> <<>>, r |-> <<>>]
    ELSE LET above == DivFrom(n, d, j + 1)
             cur == BigNorm(<<n[j]>> \o above.r)
             leading == Digit(cur, Len(d) + 1) * Radix + Digit(cur, Len(d))
             guess == leading \div d[Len(d)]
             estimate == IF guess < Radix - 1 THEN guess ELSE Radix - 1
             digit == IF BigLess(cur, d)
                      THEN 0 ELSE QuotientDigit(cur, d, estimate)
         IN  [q |-> BigNorm(<<digit>> \o above.q),
              r |-> BigSub(cur, BigNorm(TimesDigitFrom(d, digit, 1, 0)))]

\* The quotient of n by d, and whether the division is exact, for d > 0:
\* both are multiplied by the power of 2 that brings the leading digit of d
\* to 2^14 or more.
BigDivMod(n, d) ==
    LET scale == BigPow2(RadixBits - BitsOf(d[Len(d)]))
        dm == DivFrom(BigMul(n, scale), BigMul(d, scale), 1)
    IN  [q |-> dm.q, exact |-> dm.r = <<>>]

DoubleZero == [m |-> <<>>, e |-> 0]

\* The double nearest to p * 2^e, a tie going to the even significand.
RoundToDouble(p, e) ==
    IF p = <<>> THEN DoubleZero
    ELSE LET s == BitLen(p) - SignificandBits
         IN  IF s <= 0
             THEN [m |-> BigMul(p, BigPow2(-s)), e |-> e + s]
             ELSE LET kept   == BigShiftRight(p, s)
                      half   == BitAt(p, s - 1) = 1
                      sticky == \E i \in 0..(s - 2) : BitAt(p, i) = 1
                      up     == half /\ (sticky \/ BitAt(kept, 0) = 1)
                      q      == PlusBit(kept, IF up THEN 1 ELSE 0)
                  IN  IF BitLen(q) > SignificandBits
                      THEN [m |-> BigPow2(SignificandBits - 1), e |-> e + s + 1]
                      ELSE [m |-> q, e |-> e + s]

\* x * y in doubles.
DoubleTimes(x, y) == RoundToDouble(BigMul(x.m, y.m), x.e + y.e)

\* x / y in doubles, for y > 0: the quotient of the significands to 11 more
\* binary digits than a double holds, and one more digit that says whether
\* the division left a remainder.
DoubleOver(x, y) ==
    IF x.m = <<>> THEN DoubleZero
    ELSE LET extra == SignificandBits + 11
             dm == BigDivMod(BigMul(x.m, BigPow2(extra)), y.m)
             sticky == IF dm.exact THEN 0 ELSE 1
         IN  RoundToDouble(PlusBit(BigAdd(dm.q, dm.q), sticky),
                           x.e - y.e - extra - 1)

\* The double of a natural number.
DoubleOfNat(n) == RoundToDouble(BigFromNat(n), 0)

\* The double that the decimal numeral of milli thousandths stands for.
DoubleOfMilli(milli) == DoubleOver(DoubleOfNat(milli), DoubleOfNat(Scale))

\* const lbsToKg = 0.453592, line 130: the double of the numeral.
lbsToKg == DoubleOver(DoubleOfNat(lbsToKgMicro), DoubleOfNat(Million))

\* A variant with the two conversions interchanged.
convertWeightSwapped(weight, toUnit, baseUnit) ==
    IF toUnit = "kg" /\ baseUnit = "lbs" THEN DoubleOver(weight, lbsToKg)
    ELSE IF toUnit = "lbs" /\ baseUnit = "kg" THEN DoubleTimes(weight, lbsToKg)
    ELSE weight

\* convertWeight(weight, unit, baseUnit), lines 129-134, on doubles.
convertWeightOfDouble(weight, toUnit, baseUnit) ==
    IF toUnit = "kg" /\ baseUnit = "lbs" THEN DoubleTimes(weight, lbsToKg)
    ELSE IF toUnit = "lbs" /\ baseUnit = "kg" THEN DoubleOver(weight, lbsToKg)
    ELSE weight

\* No call of convertWeight is looked at.
noConversion ==
    [stage |-> "none", weight |-> DoubleZero, unit |-> "", baseUnit |-> "",
     returned |-> DoubleZero, restored |-> DoubleZero]

\* An entry of localStorage: absent (getItem gives null), the text that
\* JSON.stringify gives for a list, or a text that JSON.parse rejects.
NoItem == [kind |-> "none", items |-> <<>>]

CorruptItem == [kind |-> "corrupt", items |-> <<>>]

\* A handler and its arguments.
Event(name, type, id, index) ==
    [name |-> name, type |-> type, id |-> id, index |-> index]

noEvent == Event("", "", "", 0)

\* Neither addPlate nor removePlate has run.
noOps == [adds |-> 0, removes |-> 0]

\* The pages, App and localStorage as they are while the resolution effect
\* or convertWeight is looked at on its own.
appAtRest ==
    /\ page = "calculator"
    /\ storedPlates = NoItem
    /\ storedBars = NoItem
    /\ selectedPlates = <<>>
    /\ sidedness = "both-sides"
    /\ totalWeight = [n |-> 0, fnum |-> 0, fden |-> 1]
    /\ changed = {}
    /\ lastEvent = noEvent
    /\ edits = 0
    /\ loadoutOps = noOps

---------------------------------------------------------------------------
(* The data of the program *)

Plate(id, weight, quantity, color) ==
    [id |-> id, weight |-> weight, quantity |-> quantity, color |-> color]

Bar(id, name, weight) == [id |-> id, name |-> name, weight |-> weight]

\* defaultBars, lines 18-23 (crypto.randomUUID() ids written as "bar-1" ...).
defaultBars ==
    << Bar("bar-1", "Standard Barbell", 45000),
       Bar("bar-2", "EZ Curl Bar", 10000),
       Bar("bar-3", "Dumbbell Bar", 5000),
       Bar("no-bar", "No Bar", 0) >>

\* The target input's value: '' (parseFloat gives NaN), a text that is no
\* number, or a number in thousandths of the display unit.
EmptyInput == [kind |-> "empty", milli |-> 0]
TextInput == [kind |-> "text", milli |-> 0]
NumberInput(milli) == [kind |-> "number", milli |-> milli]

\* parseFloat(targetWeight), line 300.
parseFloat(input) == IF input.kind = "number" THEN Num(input.milli) ELSE NaN

\* The amount a message shows: a number printed as it is, or the text of
\* toFixed(2) (fixed = TRUE), at value thousandths of the display unit.
NoAmount == [value |-> NaN, fixed |-> FALSE]

Message(text, amount, u) == [text |-> text, amount |-> amount, unit |-> u]

\* useState({ plates: [], message: '' }), line 281.
initialResult == [plates |-> <<>>, message |-> Message("", NoAmount, "")]

\* Number.prototype.toFixed(2): the nearest hundredth, a half away from zero.
toFixed2(x) ==
    LET magnitude == IF x.n >= 0 THEN x.n
                     ELSE IF x.fnum = 0 THEN -x.n ELSE -x.n - 1
        cents == (magnitude + 5) \div 10
    IN  Num(10 * (IF x.n >= 0 THEN cents ELSE -cents))

\* weight % 1 === 0 ? weight : weight.toFixed(2), lines 337 and 442-444.
formatWeight(weight) ==
    IF IsNaN(weight) THEN [value |-> NaN, fixed |-> TRUE]
    ELSE IF IsWhole(weight) /\ weight.n % Scale = 0
         THEN [value |-> weight, fixed |-> FALSE]
         ELSE [value |-> toFixed2(weight), fixed |-> TRUE]

---------------------------------------------------------------------------
(* Array operations *)

RECURSIVE InsertByWeight(_, _)
\* p put into a list sorted by (a, b) => b.weight - a.weight, after every
\* element that does not sort after it: the sort is stable.
InsertByWeight(sorted, p) ==
    IF sorted = <<>> THEN <<p>>
    ELSE IF Head(sorted).weight >= p.weight
         THEN <<Head(sorted)>> \o InsertByWeight(Tail(sorted), p)
         ELSE <<p>> \o sorted

RECURSIVE SortFrom(_, _, _)
SortFrom(list, i, sorted) ==
    IF i > Len(list) THEN sorted
    ELSE SortFrom(list, i + 1, InsertByWeight(sorted, list[i]))

\* A variant that leaves the list as it is, as if line 324 did not sort.
sortByWeightOmitted(list) == list

RECURSIVE InsertBeforeEqual(_, _)
InsertBeforeEqual(sorted, p) ==
    IF sorted = <<>> THEN <<p>>
    ELSE IF Head(sorted).weight > p.weight
         THEN <<Head(sorted)>> \o InsertBeforeEqual(Tail(sorted), p)
         ELSE <<p>> \o sorted

RECURSIVE UnstableSortFrom(_, _, _)
UnstableSortFrom(list, i, sorted) ==
    IF i > Len(list) THEN sorted
    ELSE UnstableSortFrom(list, i + 1, InsertBeforeEqual(sorted, list[i]))

\* A variant that sorts by weight and swaps plates of the same weight, as a
\* sort that is not stable may.
sortByWeightUnstable(list) == UnstableSortFrom(list, 1, <<>>)

\* list.sort((a, b) => b.weight - a.weight): by weight, heaviest first.
sortByWeight(list) == SortFrom(list, 1, <<>>)

RECURSIVE SumOfWeights(_)
\* list.reduce((sum, p) => sum + p.weight, 0), lines 335 and 433.
SumOfWeights(list) ==
    IF list = <<>> THEN 0 ELSE Head(list).weight + SumOfWeights(Tail(list))

RECURSIVE FindFrom(_, _, _)
FindFrom(list, id, i) ==
    IF i > Len(list) THEN 0
    ELSE IF list[i].id = id THEN i ELSE FindFrom(list, id, i + 1)

\* A variant that falls back to the first bar, as line 285 does for the
\* default bar: bars.find(...) || bars[0].
findBarOrFirst(list, id) ==
    IF FindFrom(list, id, 1) = 0 /\ list # <<>> THEN 1
    ELSE FindFrom(list, id, 1)

\* bars.find(b => b.id === selectedBarId), line 295: the position of the
\* first bar with the id, 0 for undefined.
findBar(list, id) == FindFrom(list, id, 1)

\* count references to plate, pushed one by one (line 331).
Repeat(plate, count) == [i \in 1..count |-> plate]

---------------------------------------------------------------------------
(* The resolution effect of CalculatorPage, lines 290-345 *)

\* isLoading || !selectedBarId, line 291.
notReady(loading, id) == loading \/ id = ""

\* A variant without the check of line 296.
barIsMissingUnchecked(barAt) == FALSE

\* !bar, line 296.
barIsMissing(barAt) == barAt = 0

\* let targetInLbs = parseFloat(targetWeight), converted when the display
\* unit is kg: lines 300-301.
targetInLbsOf(input, u) ==
    IF u = "kg" THEN convertWeight(parseFloat(input), "lbs", "kg")
    ELSE parseFloat(input)

\* A variant without the test for a negative target.
targetIsNotANumber(targetInLbs) == IsNaN(targetInLbs)

\* isNaN(targetInLbs) || targetInLbs < 0, line 303.
targetIsInvalid(targetInLbs) == IsNaN(targetInLbs) \/ LessThan(targetInLbs, 0)

\* A variant that shows the bar's weight in pounds whatever the unit.
displayBarWeightInLbs(barWeightInLbs, u) ==
    [value |-> Num(barWeightInLbs), fixed |-> FALSE]

\* convertWeight(barWeightInLbs, unit), line 308: printed as it is.
displayBarWeightOf(barWeightInLbs, u) ==
    [value |-> convertWeight(Num(barWeightInLbs), u, "lbs"), fixed |-> FALSE]

\* targetInLbs < barWeightInLbs, line 310.
belowBarWeight(targetInLbs, barWeightInLbs) ==
    LessThan(targetInLbs, barWeightInLbs)

\* calculationType === 'two-sided' ? 2 : 1, line 315.
numSidesOf(type) == IF type = "two-sided" THEN 2 ELSE 1

\* A variant without the tolerance: weightToLoadInLbs === 0.
justTheBarExactly(weightToLoadInLbs) ==
    IsWhole(weightToLoadInLbs) /\ weightToLoadInLbs.n = 0

\* Math.abs(weightToLoadInLbs) < 0.01, line 319.
justTheBar(weightToLoadInLbs) == AbsLessThan(weightToLoadInLbs, Tolerance)

\* roundToDecimal(weightPerSideInLbs / plate.weight, 3), line 329, in
\* thousandths, for plate.weight > 0.
roundedQuotient(weightPerSideInLbs, weight) ==
    IF IsNaN(weightPerSideInLbs) THEN NaN
    ELSE LET x    == weightPerSideInLbs
             g    == (Scale * x.fnum) \div x.fden
             h    == (Scale * x.fnum) % x.fden
             top  == Scale * x.n + g
             q    == top \div weight
             rr   == top % weight
             a    == Scale * (weight - rr) - weight
             tiny == \/ /\ q = 0
                        /\ rr > 0 \/ h > 0
                        /\ Scale * rr + (Scale * h) \div x.fden < weight
                     \/ /\ q = -1
                        /\ \/ a < 0
                           \/ a < Scale /\ a * x.fden < Scale * h
         IN  IF tiny THEN NaN
             ELSE Num(q + (IF 2 * rr + (2 * h) \div x.fden >= weight
                           THEN 1 ELSE 0))

\* Math.floor(roundToDecimal(weightPerSideInLbs / plate.weight, 3) + 1e-9),
\* line 329: a whole number, or NaN.
platesNeededOf(weightPerSideInLbs, plate) ==
    LET rounded == roundedQuotient(weightPerSideInLbs, plate.weight)
    IN  IF IsNaN(rounded) THEN NaN ELSE Num(rounded.n \div Scale)

\* Math.floor(plate.quantity / numSides), line 330.
platesOwnedPerSide(plate, numSides) == plate.quantity \div numSides

\* Math.min(platesNeeded, Math.floor(plate.quantity / numSides)), line 330:
\* a whole number, or NaN.
platesToUseOf(weightPerSideInLbs, plate, numSides) ==
    LET platesNeeded == platesNeededOf(weightPerSideInLbs, plate)
        owned == platesOwnedPerSide(plate, numSides)
    IN  IF IsNaN(platesNeeded) THEN NaN
        ELSE Num(IF platesNeeded.n < owned THEN platesNeeded.n ELSE owned)

\* for (let i = 0; i < platesToUse; i++) platesForSide.push(plate), line 331:
\* nothing is pushed for a count that is negative or NaN.
pushPlates(platesForSide, plate, platesToUse) ==
    IF IsNaN(platesToUse) \/ platesToUse.n <= 0 THEN platesForSide
    ELSE platesForSide \o Repeat(plate, platesToUse.n)

\* roundToDecimal(weightPerSideInLbs - (platesToUse * plate.weight), 3),
\* line 332.
weightLeft(weightPerSideInLbs, plate, platesToUse) ==
    IF IsNaN(platesToUse) THEN NaN
    ELSE roundToDecimal(Minus(weightPerSideInLbs, platesToUse.n * plate.weight))

RECURSIVE greedyLoop(_, _, _, _, _)
\* for (const plate of availablePlates) { ... }, lines 326-333, from the
\* i-th plate on.
greedyLoop(availablePlates, i, numSides, platesForSide, weightPerSideInLbs) ==
    IF i > Len(availablePlates)
    THEN [platesForSide |-> platesForSide,
          weightPerSideInLbs |-> weightPerSideInLbs]
    ELSE LET plate == availablePlates[i]
         IN  IF plate.weight <= 0
             THEN greedyLoop(availablePlates, i + 1, numSides,
                             platesForSide, weightPerSideInLbs)
             ELSE LET platesToUse ==
                          platesToUseOf(weightPerSideInLbs, plate, numSides)
                  IN  greedyLoop(availablePlates, i + 1, numSides,
                          pushPlates(platesForSide, plate, platesToUse),
                          weightLeft(weightPerSideInLbs, plate, platesToUse))

RECURSIVE greedySteps(_, _, _, _)
\* The iterations of the loop of lines 326-333 from the i-th plate on, one
\* record for each plate the loop does not skip: the plate, weightPerSideInLbs
\* before the iteration, platesToUse, and weightPerSideInLbs after it.
greedySteps(availablePlates, i, numSides, weightPerSideInLbs) ==
    IF i > Len(availablePlates) THEN <<>>
    ELSE LET plate == availablePlates[i]
         IN  IF plate.weight <= 0
             THEN greedySteps(availablePlates, i + 1, numSides,
                              weightPerSideInLbs)
             ELSE LET platesToUse ==
                          platesToUseOf(weightPerSideInLbs, plate, numSides)
                      after ==
                          weightLeft(weightPerSideInLbs, plate, platesToUse)
                  IN  << [plate |-> plate, before |-> weightPerSideInLbs,
                          platesToUse |-> platesToUse, after |-> after] >>
                      \o greedySteps(availablePlates, i + 1, numSides, after)

\* platesForSide.reduce(...) * numSides + barWeightInLbs, line 335.
loadedWeightInLbsOf(platesForSide, numSides, barWeightInLbs) ==
    SumOfWeights(platesForSide) * numSides + barWeightInLbs

\* A variant without the tolerance: any difference of the rounded weights.
offTargetExactly(loadedWeightInLbs, targetInLbs) ==
    LET loaded == roundToDecimal(Num(loadedWeightInLbs))
        target == roundToDecimal(targetInLbs)
    IN  ~IsNaN(loaded) /\ ~IsNaN(target) /\ loaded.n # target.n

\* Math.abs(roundToDecimal(loadedWeightInLbs, 3)
\*          - roundToDecimal(targetInLbs, 3)) > 0.01, line 340.
offTarget(loadedWeightInLbs, targetInLbs) ==
    LET loaded == roundToDecimal(Num(loadedWeightInLbs))
        target == roundToDecimal(targetInLbs)
    IN  /\ ~IsNaN(loaded) /\ ~IsNaN(target)
        /\ \/ loaded.n - target.n > Tolerance
           \/ target.n - loaded.n > Tolerance

\* The message of lines 341 and 343.
loadedMessage(loadedWeightInLbs, targetInLbs, u) ==
    LET displayLoadedWeight ==
            formatWeight(convertWeight(Num(loadedWeightInLbs), u, "lbs"))
    IN  IF offTarget(loadedWeightInLbs, targetInLbs)
        THEN Message("Closest is", displayLoadedWeight, u)
        ELSE Message("Total:", displayLoadedWeight, u)

\* What one run of the effect does, from line 290 to its return: the result
\* it sets, the plate list it leaves (plates.sort of line 324 sorts the
\* inventory's own array), and whether it threw.
resolution(loading, plateList, barList, id, type, input, u) ==
    LET barAt == findBar(barList, id)
        done(plts, msg) ==
            [result |-> [plates |-> plts, message |-> msg],
             plates |-> plateList, thrown |-> FALSE]
    IN
    IF notReady(loading, id)
    THEN done(<<>>, Message("Loading inventory...", NoAmount, ""))
    ELSE IF barIsMissing(barAt)
    THEN done(<<>>, Message("Please select a bar.", NoAmount, ""))
    ELSE LET targetInLbs == targetInLbsOf(input, u) IN
    IF targetIsInvalid(targetInLbs)
    THEN done(<<>>, Message("Enter a valid target weight.", NoAmount, ""))
    ELSE IF barAt = 0
    \* bar.weight of undefined, line 307: a TypeError
    THEN [result |-> initialResult, plates |-> plateList, thrown |-> TRUE]
    ELSE LET barWeightInLbs == barList[barAt].weight
             displayBarWeight == displayBarWeightOf(barWeightInLbs, u)
    IN
    IF belowBarWeight(targetInLbs, barWeightInLbs)
    THEN done(<<>>, Message("Weight must be at least the bar weight",
                            displayBarWeight, u))
    ELSE LET weightToLoadInLbs == Minus(targetInLbs, barWeightInLbs)
             numSides == numSidesOf(type)
    IN
    IF justTheBar(weightToLoadInLbs)
    THEN done(<<>>, Message("Just the bar", displayBarWeight, u))
    ELSE LET sorted == sortByWeight(plateList)
             loop == greedyLoop(sorted, 1, numSides, <<>>,
                                DividedBy(weightToLoadInLbs, numSides))
             loadedWeightInLbs ==
                 loadedWeightInLbsOf(loop.platesForSide, numSides, barWeightInLbs)
    IN  [result |-> [plates |-> loop.platesForSide,
                     message |-> loadedMessage(loadedWeightInLbs, targetInLbs, u)],
         plates |-> sorted,
         thrown |-> FALSE]

---------------------------------------------------------------------------
(* The inputs of the resolution effect *)

\* The inventory of the specification's scenarios: 45, 25, 10, 5 and 2.5,
\* each owned MaxQuantity times.
scenarioPlates ==
    << Plate("plate-1", 45000, MaxQuantity, "#F97316"),
       Plate("plate-2", 25000, MaxQuantity, "#3B82F6"),
       Plate("plate-3", 10000, MaxQuantity, "#FBBF24"),
       Plate("plate-4", 5000, MaxQuantity, "#10B981"),
       Plate("plate-5", 2500, MaxQuantity, "#6B7280") >>

\* A stored list that is not sorted by weight.
unsortedPlates ==
    << Plate("plate-5", 2500, MaxQuantity, "#6B7280"),
       Plate("plate-1", 45000, 2, "#F97316"),
       Plate("plate-3", 10000, MaxQuantity + 1, "#FBBF24") >>

\* Two plate types of the same weight, and a weight that divides unevenly.
tiedPlates ==
    << Plate("plate-6", 10000, 2, "#FBBF24"),
       Plate("plate-7", 10000, 3, "#EF4444"),
       Plate("plate-8", 3000, MaxQuantity + 3, "#6B7280") >>

\* Plate lists as localStorage may hold them (line 37 takes the stored list
\* as it is) and as the inventory form saves them (lines 500-511: any
\* number is a weight, any whole number a quantity).
PlateLists ==
    { <<>>,
      scenarioPlates,
      unsortedPlates,
      \* one plate owned once
      << Plate("plate-3", 10000, 1, "#FBBF24") >>,
      << Plate("plate-2", 25000, 1, "#3B82F6") >>,
      tiedPlates,
      \* a negative quantity and a weight of 0
      << Plate("plate-1", 45000, -2, "#F97316"),
         Plate("plate-3", 10000, 2 * MaxQuantity, "#FBBF24"),
         Plate("plate-9", 0, MaxQuantity, "#6B7280") >> }

BarLists == { <<>>, defaultBars }

\* '' (no bar chosen), the ids of defaultBars, and the id of no bar.
BarIds == {"", "bar-1", "bar-2", "no-bar", "bar-deleted"}

\* The distance of two targets of the grid: 12.5.
TargetStep == 12500

\* Targets in thousandths of the display unit.
TargetInputs ==
    {EmptyInput, TextInput}
    \cup { NumberInput(k * TargetStep) : k \in 0..MaxTargetSteps }
    \cup { NumberInput(t) : t \in { -5000, 20000, 44000, 44996, 45000, 45004, 46000,
                                    61235, 65000, 134960, 135000, 140000 } }

\* isLoading is true only before the load effect of lines 31-52 has run: the
\* lists are then empty (lines 26-27) and no bar is chosen (lines 279, 284).
InitResolver ==
    /\ \/ /\ isLoading = TRUE
          /\ plates = <<>>
          /\ bars = <<>>
          /\ selectedBarId = ""
       \/ /\ isLoading = FALSE
          /\ plates \in PlateLists
          /\ bars \in BarLists
          /\ selectedBarId \in BarIds
    /\ unit \in {"lbs", "kg"}
    /\ targetWeight \in TargetInputs
    /\ calculationType \in {"two-sided", "one-sided"}
    /\ result = initialResult
    /\ pc = "mounted"
    /\ runs = 0
    /\ conversion = noConversion
    /\ appAtRest

\* The effect of lines 290-345 runs on the current inputs.
ResolveEffect ==
    /\ pc # "thrown"
    /\ runs < MaxRuns
    /\ LET r == resolution(isLoading, plates, bars, selectedBarId,
                           calculationType, targetWeight, unit)
       IN  /\ result' = r.result
           /\ plates' = r.plates
           /\ pc' = IF r.thrown THEN "thrown" ELSE "resolved"
    /\ runs' = runs + 1
    /\ UNCHANGED <<isLoading, bars, unit, targetWeight, selectedBarId,
                   calculationType, conversion>>
    /\ UNCHANGED appVars

NextResolver == ResolveEffect

SpecResolver == InitResolver /\ [][NextResolver]_vars

---------------------------------------------------------------------------
(* The total effect of ReverseCalculatorPage, lines 431-437 *)

\* A variant that counts both sides whatever the sidedness.
totalWeightBothSides(selected, barList, id, sided, u) ==
    LET barAt == findBar(barList, id)
        barWeightInLbs == IF barAt = 0 THEN 0 ELSE barList[barAt].weight
    IN  convertWeight(Num(barWeightInLbs + SumOfWeights(selected) * 2),
                      u, "lbs")

\* The value the effect hands to setTotalWeight: bars.find(...)?.weight || 0,
\* plus the plates of one side times the number of sides, in the display unit.
totalWeightOf(selected, barList, id, sided, u) ==
    LET barAt == findBar(barList, id)
        barWeightInLbs == IF barAt = 0 THEN 0 ELSE barList[barAt].weight
        platesWeightPerSideInLbs == SumOfWeights(selected)
        numSides == IF sided = "both-sides" THEN 2 ELSE 1
        totalWeightInLbs == barWeightInLbs + platesWeightPerSideInLbs * numSides
    IN  convertWeight(Num(totalWeightInLbs), u, "lbs")

---------------------------------------------------------------------------
(* convertWeight called on its own, and called back *)

\* The weights converted: 0, 0.5, 1, ... in the unit the call converts from.
MaxConvertSteps == 100

ConvertStep == 500

ConvertInputs == { DoubleOfMilli(k * ConvertStep) : k \in 0..MaxConvertSteps }

InitConvert ==
    /\ isLoading = FALSE
    /\ plates = <<>>
    /\ bars = <<>>
    /\ unit = "lbs"
    /\ targetWeight = EmptyInput
    /\ selectedBarId = ""
    /\ calculationType = "two-sided"
    /\ result = initialResult
    /\ pc = "mounted"
    /\ runs = 0
    /\ appAtRest
    /\ \E w \in ConvertInputs, u \in {"lbs", "kg"}, b \in {"lbs", "kg"} :
           conversion = [stage |-> "called", weight |-> w, unit |-> u,
                         baseUnit |-> b, returned |-> DoubleZero,
                         restored |-> DoubleZero]

\* convertWeight(weight, unit, baseUnit) returns.
ConvertWeight ==
    /\ conversion.stage = "called"
    /\ conversion' =
           [conversion EXCEPT
               !.stage = "returned",
               !.returned = convertWeightOfDouble(conversion.weight,
                                conversion.unit, conversion.baseUnit)]
    /\ UNCHANGED <<isLoading, plates, bars, unit, targetWeight, selectedBarId,
                   calculationType, result, pc, runs>>
    /\ UNCHANGED appVars

\* The value returned is converted back: convertWeight(returned, baseUnit, unit).
ConvertBack ==
    /\ conversion.stage = "returned"
    /\ conversion' =
           [conversion EXCEPT
               !.stage = "restored",
               !.restored = convertWeightOfDouble(conversion.returned,
                                conversion.baseUnit, conversion.unit)]
    /\ UNCHANGED <<isLoading, plates, bars, unit, targetWeight, selectedBarId,
                   calculationType, result, pc, runs>>
    /\ UNCHANGED appVars

NextConvert == ConvertWeight \/ ConvertBack

SpecConvert == InitConvert /\ [][NextConvert]_vars

----------------------------------------------------------------------------
(* The application: InventoryProvider, App and its pages *)

\* How many inventory items the user saves or deletes.
MaxEdits == 2

\* How many plates the user puts on one side in the reverse calculator.
MaxSelected == 2

\* How often the user presses a plate button of the reverse calculator.
MaxAdds == 3

\* The step buttons are pressed on targets up to 1.
MaxStepTarget == 1000

\* defaultPlates, lines 9-15 (crypto.randomUUID() ids written as "plate-1" ...).
defaultPlates ==
    << Plate("plate-1", 45000, 12, "#F97316"),
       Plate("plate-2", 25000, 4, "#3B82F6"),
       Plate("plate-3", 10000, 6, "#FBBF24"),
       Plate("plate-4", 5000, 6, "#10B981"),
       Plate("plate-5", 2500, 6, "#6B7280") >>

\* The lists an earlier session has stored: defaults edited and deleted.
savedPlates ==
    << Plate("plate-1", 45000, 1, "#F97316"),
       Plate("plate-3", 10000, 6, "#FBBF24") >>

savedBars ==
    << Bar("bar-1", "Standard Barbell", 45000),
       Bar("no-bar", "No Bar", 0) >>

\* JSON.stringify(list), lines 43-44, 57 and 63: a text from which
\* JSON.parse (lines 37-38) gives the items back; the numbers of the lists
\* are finite, the other fields are strings.
stringify(list) == [kind |-> "json", items |-> list]

\* localStorage before the provider mounts: nothing stored (the first
\* visit), the lists of an earlier session, or a text JSON.parse rejects.
StoredSessions ==
    { <<NoItem, NoItem>>,
      <<stringify(savedPlates), stringify(savedBars)>>,
      <<CorruptItem, stringify(savedBars)>> }

\* The load effect, lines 32-50: what it hands to setPlates and setBars and
\* what it leaves in localStorage.
loadInventory(itemPlates, itemBars) ==
    IF itemPlates.kind # "none" /\ itemBars.kind # "none"
    THEN IF itemPlates.kind = "corrupt" \/ itemBars.kind = "corrupt"
         \* JSON.parse throws: the catch of lines 46-50
         THEN [plates |-> defaultPlates, bars |-> defaultBars,
               storedPlates |-> itemPlates, storedBars |-> itemBars]
         ELSE [plates |-> itemPlates.items, bars |-> itemBars.items,
               storedPlates |-> itemPlates, storedBars |-> itemBars]
    ELSE [plates |-> defaultPlates, bars |-> defaultBars,
          storedPlates |-> stringify(defaultPlates),
          storedBars |-> stringify(defaultBars)]

\* A variant that writes while the inventory is loading.
persistGuardOmitted(loading) == TRUE

\* if (!isLoading), lines 56 and 62.
persistGuard(loading) == ~loading

\* The dependency lists of the effects, lines 288 and 429, 345, 437, 59, 65.
autoSelectDeps == {"bars", "selectedBarId"}

\* A variant that leaves the unit out.
resolveDepsWithoutUnit ==
    {"targetWeight", "selectedBarId", "calculationType", "plates", "bars",
     "isLoading"}

resolveDeps ==
    {"targetWeight", "selectedBarId", "calculationType", "plates", "bars",
     "isLoading", "unit"}

\* A variant that leaves the sidedness out.
totalDepsWithoutSidedness == {"selectedPlates", "selectedBarId", "bars", "unit"}

totalDeps == {"selectedPlates", "selectedBarId", "bars", "unit", "sidedness"}

persistPlatesDeps == {"plates", "isLoading"}

persistBarsDeps == {"bars", "isLoading"}

\* An effect of the mounted page runs after the commit in which the page
\* mounted or a dependency changed; one of the provider, after the commit in
\* which the application mounted or a dependency changed.
pageEffectDue(deps) ==
    \/ "mount-app" \in changed
    \/ "mount-page" \in changed
    \/ deps \cap changed # {}

providerEffectDue(deps) ==
    \/ "mount-app" \in changed
    \/ deps \cap changed # {}

\* bars.find(b => b.weight === 45) || bars[0], lines 285 and 426: the id of
\* the default bar of a list that is not empty.
defaultBarId(barList) ==
    LET at45 == {i \in 1..Len(barList) : barList[i].weight = 45000}
    IN  IF at45 # {}
        THEN barList[CHOOSE i \in at45 : \A j \in at45 : i <= j].id
        ELSE barList[1].id

\* React commits a render and runs the effects that are due: those of the
\* page first (lines 283-288 and 290-345, or 424-429 and 431-437), then
\* those of the provider (lines 31-52, 55-59, 61-65).  Each effect sees the
\* state of the render; what the effects set is the state of the next
\* render.  plates.sort of line 324 sorts the provider's array where it is:
\* the persist effect of the same commit writes the sorted array, and no
\* dependency changes by it.
Commit ==
    /\ changed # {}
    /\ pc # "thrown"
    /\ LET onPage == page \in {"calculator", "reverse"}
           pick == /\ onPage /\ pageEffectDue(autoSelectDeps)
                   /\ Len(bars) > 0 /\ selectedBarId = ""
           resolveDue == page = "calculator" /\ pageEffectDue(resolveDeps)
           r == resolution(isLoading, plates, bars, selectedBarId,
                           calculationType, targetWeight, unit)
           sorted == IF resolveDue THEN r.plates ELSE plates
           totalDue == page = "reverse" /\ pageEffectDue(totalDeps)
           loadDue == "mount-app" \in changed
           loaded == loadInventory(storedPlates, storedBars)
           persistPlatesDue ==
               providerEffectDue(persistPlatesDeps) /\ persistGuard(isLoading)
           persistBarsDue ==
               providerEffectDue(persistBarsDeps) /\ persistGuard(isLoading)
       IN  /\ selectedBarId' =
                  IF pick THEN defaultBarId(bars) ELSE selectedBarId
           /\ result' = IF resolveDue THEN r.result ELSE result
           /\ pc' = IF ~resolveDue THEN pc
                    ELSE IF r.thrown THEN "thrown" ELSE "resolved"
           /\ totalWeight' =
                  IF totalDue
                  THEN totalWeightOf(selectedPlates, bars, selectedBarId,
                                     sidedness, unit)
                  ELSE totalWeight
           /\ plates' = IF loadDue THEN loaded.plates ELSE sorted
           /\ bars' = IF loadDue THEN loaded.bars ELSE bars
           /\ isLoading' = IF loadDue THEN FALSE ELSE isLoading
           /\ storedPlates' =
                  IF persistPlatesDue THEN stringify(sorted)
                  ELSE IF loadDue THEN loaded.storedPlates ELSE storedPlates
           /\ storedBars' =
                  IF persistBarsDue THEN stringify(bars)
                  ELSE IF loadDue THEN loaded.storedBars ELSE storedBars
           /\ changed' =
                  (IF pick THEN {"selectedBarId"} ELSE {})
                  \cup (IF loadDue THEN {"plates", "bars", "isLoading"} ELSE {})
    /\ UNCHANGED <<unit, targetWeight, calculationType, runs, conversion, page,
                   selectedPlates, sidedness, lastEvent, edits>>
    /\ UNCHANGED loadoutOps

\* The handlers run between commits, when no effect is due.
Idle == changed = {} /\ pc # "thrown"

\* NavButton, line 594: setPage(target).  The page that leaves unmounts and
\* the page that comes mounts with its initial state (lines 279-281 and
\* 419-422).
SetPage ==
    /\ Idle
    /\ \E target \in {"calculator", "reverse", "inventory"} :
           /\ target # page
           /\ page' = target
           /\ lastEvent' = Event("setPage", "", target, 0)
    /\ selectedBarId' = ""
    /\ calculationType' = "two-sided"
    /\ result' = initialResult
    /\ pc' = "mounted"
    /\ selectedPlates' = <<>>
    /\ sidedness' = "both-sides"
    /\ totalWeight' = Num(0)
    /\ changed' = {"mount-page"}
    /\ loadoutOps' = noOps
    /\ UNCHANGED <<isLoading, plates, bars, unit, targetWeight, runs,
                   conversion, storedPlates, storedBars, edits>>

\* The unit switch, line 614.
ToggleUnit ==
    /\ Idle
    /\ unit' = IF unit = "lbs" THEN "kg" ELSE "lbs"
    /\ changed' = {"unit"}
    /\ lastEvent' = Event("setUnit", "", "", 0)
    /\ UNCHANGED <<isLoading, plates, bars, targetWeight, selectedBarId,
                   calculationType, result, pc, runs, conversion, page,
                   storedPlates, storedBars, selectedPlates, sidedness,
                   totalWeight, edits>>
    /\ UNCHANGED loadoutOps

\* A number that is NaN, as the step buttons leave it for an empty target.
NaNInput == [kind |-> "NaN", milli |-> 0]

\* What the user types into the target field: nothing, 0 or 140.
TypedTargets == {EmptyInput, NumberInput(0), NumberInput(140000)}

\* The target field, line 373: setTargetWeight(e.target.value).
ChangeTargetWeight ==
    /\ Idle
    /\ page = "calculator"
    /\ \E value \in TypedTargets :
           /\ value # targetWeight
           /\ targetWeight' = value
    /\ changed' = {"targetWeight"}
    /\ lastEvent' = Event("setTargetWeight", "", "", 0)
    /\ UNCHANGED <<isLoading, plates, bars, unit, selectedBarId,
                   calculationType, result, pc, runs, conversion, page,
                   storedPlates, storedBars, selectedPlates, sidedness,
                   totalWeight, edits>>
    /\ UNCHANGED loadoutOps

\* getStep, lines 349-355, in thousandths.
getStep ==
    IF unit = "lbs"
    THEN IF calculationType = "two-sided" THEN 5000 ELSE 2500
    ELSE IF calculationType = "two-sided" THEN 1000 ELSE 500

\* Math.max(0, parseFloat(prev) - getStep()), line 366.
steppedDown(prev) ==
    IF IsNaN(parseFloat(prev)) THEN NaNInput
    ELSE IF prev.milli - getStep > 0 THEN NumberInput(prev.milli - getStep)
         ELSE NumberInput(0)

\* parseFloat(prev) + getStep(), line 375.
steppedUp(prev) ==
    IF IsNaN(parseFloat(prev)) THEN NaNInput
    ELSE NumberInput(prev.milli + getStep)

\* A target the step buttons are pressed on, and may leave.
InStepRange(input) ==
    input.kind # "number" \/ input.milli <= MaxStepTarget

\* The - button, line 366.
StepDown ==
    /\ Idle
    /\ page = "calculator"
    /\ InStepRange(targetWeight)
    /\ targetWeight' = steppedDown(targetWeight)
    /\ changed' = IF targetWeight' = targetWeight THEN {} ELSE {"targetWeight"}
    /\ lastEvent' = Event("setTargetWeight", "", "", 0)
    /\ UNCHANGED <<isLoading, plates, bars, unit, selectedBarId,
                   calculationType, result, pc, runs, conversion, page,
                   storedPlates, storedBars, selectedPlates, sidedness,
                   totalWeight, edits>>
    /\ UNCHANGED loadoutOps

\* The + button, line 375.
StepUp ==
    /\ Idle
    /\ page = "calculator"
    /\ InStepRange(targetWeight)
    /\ InStepRange(steppedUp(targetWeight))
    /\ targetWeight' = steppedUp(targetWeight)
    /\ changed' = IF targetWeight' = targetWeight THEN {} ELSE {"targetWeight"}
    /\ lastEvent' = Event("setTargetWeight", "", "", 0)
    /\ UNCHANGED <<isLoading, plates, bars, unit, selectedBarId,
                   calculationType, result, pc, runs, conversion, page,
                   storedPlates, storedBars, selectedPlates, sidedness,
                   totalWeight, edits>>
    /\ UNCHANGED loadoutOps

\* The first and the last position of a list: the items the user picks.
Ends(list) == {1, Len(list)} \cap (1..Len(list))

\* The bar select of the calculator, line 383, and of the reverse
\* calculator, line 453: setSelectedBarId(e.target.value).
SelectBar ==
    /\ Idle
    /\ page \in {"calculator", "reverse"}
    /\ \E i \in Ends(bars) :
           /\ bars[i].id # selectedBarId
           /\ selectedBarId' = bars[i].id
           /\ lastEvent' = Event("setSelectedBarId", "", bars[i].id, 0)
    /\ changed' = {"selectedBarId"}
    /\ UNCHANGED <<isLoading, plates, bars, unit, targetWeight,
                   calculationType, result, pc, runs, conversion, page,
                   storedPlates, storedBars, selectedPlates, sidedness,
                   totalWeight, edits>>
    /\ UNCHANGED loadoutOps

\* The load type buttons, line 394: setCalculationType(type).
SetCalculationType ==
    /\ Idle
    /\ page = "calculator"
    /\ \E type \in {"two-sided", "one-sided"} :
           /\ type # calculationType
           /\ calculationType' = type
           /\ lastEvent' = Event("setCalculationType", type, "", 0)
    /\ changed' = {"calculationType"}
    /\ UNCHANGED <<isLoading, plates, bars, unit, targetWeight, selectedBarId,
                   result, pc, runs, conversion, page, storedPlates,
                   storedBars, selectedPlates, sidedness, totalWeight, edits>>
    /\ UNCHANGED loadoutOps

----------------------------------------------------------------------------
(* The handlers of ReverseCalculatorPage *)

\* A variant that leaves the new plate at the end.
withPlateAppended(prev, plate) == Append(prev, plate)

\* addPlate, line 439: [...prev, plate].sort((a, b) => b.weight - a.weight).
withPlateAdded(prev, plate) == sortByWeight(Append(prev, plate))

RECURSIVE removeFrom(_, _, _)
removeFrom(prev, index, i) ==
    IF i > Len(prev) THEN <<>>
    ELSE (IF i - 1 # index THEN <<prev[i]>> ELSE <<>>)
         \o removeFrom(prev, index, i + 1)

\* A variant that removes every reference to the plate at the index.
removeSamePlate(prev, index) ==
    SelectSeq(prev, LAMBDA p : p # prev[index + 1])

\* removePlate, line 440: prev.filter((_, i) => i !== index).
removePlateAt(prev, index) == removeFrom(prev, index, 1)

\* A plate button of the inventory, line 480: addPlate(plate).
addPlate ==
    /\ Idle
    /\ page = "reverse"
    /\ Len(selectedPlates) < MaxSelected
    /\ loadoutOps.adds < MaxAdds
    /\ \E i \in Ends(plates) :
           /\ selectedPlates' = withPlateAdded(selectedPlates, plates[i])
           /\ lastEvent' = Event("addPlate", "", plates[i].id, 0)
    /\ changed' = {"selectedPlates"}
    /\ loadoutOps' = [loadoutOps EXCEPT !.adds = @ + 1]
    /\ UNCHANGED <<isLoading, plates, bars, unit, targetWeight, selectedBarId,
                   calculationType, result, pc, runs, conversion, page,
                   storedPlates, storedBars, sidedness, totalWeight, edits>>

\* A plate of the loadout, line 470: removePlate(index).
removePlate ==
    /\ Idle
    /\ page = "reverse"
    /\ \E index \in 0..(Len(selectedPlates) - 1) :
           /\ selectedPlates' = removePlateAt(selectedPlates, index)
           /\ lastEvent' = Event("removePlate", "", "", index)
    /\ changed' = {"selectedPlates"}
    /\ loadoutOps' = [loadoutOps EXCEPT !.removes = @ + 1]
    /\ UNCHANGED <<isLoading, plates, bars, unit, targetWeight, selectedBarId,
                   calculationType, result, pc, runs, conversion, page,
                   storedPlates, storedBars, sidedness, totalWeight, edits>>

\* The sidedness buttons, line 460: setSidedness(type).
SetSidedness ==
    /\ Idle
    /\ page = "reverse"
    /\ \E type \in {"both-sides", "one-side"} :
           /\ type # sidedness
           /\ sidedness' = type
           /\ lastEvent' = Event("setSidedness", type, "", 0)
    /\ changed' = {"sidedness"}
    /\ UNCHANGED <<isLoading, plates, bars, unit, targetWeight, selectedBarId,
                   calculationType, result, pc, runs, conversion, page,
                   storedPlates, storedBars, selectedPlates, totalWeight,
                   edits>>
    /\ UNCHANGED loadoutOps

----------------------------------------------------------------------------
(* The handlers of InventoryPage and the functions of the provider *)

\* What the user saves in PlateForm (lines 554-570) and in BarForm (lines
\* 572-583) while the unit is lbs: handleSave (lines 500-511) takes
\* parseFloat of the weight and parseInt of the quantity.
plateForm == [weight |-> 35000, quantity |-> 2, color |-> "#EF4444"]

barForm == [name |-> "Trap Bar", weight |-> 20000]

\* crypto.randomUUID(), line 68: an id no item has had.
randomUUID == "uuid-" \o ToString(edits + 1)

\* { ...itemData, id }, line 68, and { ...item, ...itemData }, line 75.
itemOf(type, id, itemData) ==
    IF type = "plates"
    THEN Plate(id, itemData.weight, itemData.quantity, itemData.color)
    ELSE Bar(id, itemData.name, itemData.weight)

formOf(type) == IF type = "plates" THEN plateForm ELSE barForm

\* addItem, lines 67-71: the list the setter makes of prev.
withItemAdded(prev, type, id, itemData) ==
    sortByWeight(Append(prev, itemOf(type, id, itemData)))

\* A variant that leaves the updated item where it was.
withItemUpdatedInPlace(prev, type, id, itemData) ==
    [i \in 1..Len(prev) |->
        IF prev[i].id = id THEN itemOf(type, id, itemData) ELSE prev[i]]

\* updateItem, lines 73-76.
withItemUpdated(prev, type, id, itemData) ==
    sortByWeight([i \in 1..Len(prev) |->
                     IF prev[i].id = id THEN itemOf(type, id, itemData)
                     ELSE prev[i]])

\* deleteItem, lines 78-81.
withItemDeleted(prev, id) == SelectSeq(prev, LAMBDA item : item.id # id)

\* The list of a type, and the step that sets it to a new list.
listOf(type) == IF type = "plates" THEN plates ELSE bars

SetList(type, list) ==
    /\ IF type = "plates"
       THEN plates' = list /\ UNCHANGED bars
       ELSE bars' = list /\ UNCHANGED plates
    /\ changed' = {type}
    /\ edits' = edits + 1
    /\ UNCHANGED loadoutOps
    /\ UNCHANGED <<isLoading, unit, targetWeight, selectedBarId,
                   calculationType, result, pc, runs, conversion, page,
                   storedPlates, storedBars, selectedPlates, sidedness,
                   totalWeight>>

\* The inventory is edited while the unit is lbs: a weight typed in kg is
\* divided by 0.453592 (line 503) and is no whole number of thousandths.
MayEdit == Idle /\ page = "inventory" /\ unit = "lbs" /\ edits < MaxEdits

\* A form opened by an Add button (lines 522, 533) is saved: handleSave,
\* lines 500-511, calls addItem.
AddItem ==
    /\ MayEdit
    /\ \E type \in {"plates", "bars"} :
           /\ SetList(type, withItemAdded(listOf(type), type, randomUUID,
                                          formOf(type)))
           /\ lastEvent' = Event("addItem", type, randomUUID, 0)

\* A form opened by the edit button of an item (lines 527, 538) is saved:
\* handleSave calls updateItem.  The item is the last of its list: the
\* lightest plate, or the bar 'no-bar' while the list ends with it.
UpdateItem ==
    /\ MayEdit
    /\ \E type \in {"plates", "bars"} :
           \E i \in {Len(listOf(type))} \ {0} :
               /\ SetList(type, withItemUpdated(listOf(type), type,
                                    listOf(type)[i].id, formOf(type)))
               /\ lastEvent' = Event("updateItem", type, listOf(type)[i].id, 0)

\* The deletion of an item is confirmed: executeDelete, line 514, calls
\* deleteItem.  The item is the first of its list.
DeleteItem ==
    /\ MayEdit
    /\ \E type \in {"plates", "bars"} :
           \E i \in {1} \cap (1..Len(listOf(type))) :
               /\ SetList(type, withItemDeleted(listOf(type), listOf(type)[i].id))
               /\ lastEvent' = Event("deleteItem", type, listOf(type)[i].id, 0)

----------------------------------------------------------------------------
(* The application from its start *)

\* The state before the first effects run: lines 26-28, 589-591, 279-281.
Init ==
    /\ isLoading = TRUE
    /\ plates = <<>>
    /\ bars = <<>>
    /\ unit = "lbs"
    /\ targetWeight = NumberInput(135000)
    /\ selectedBarId = ""
    /\ calculationType = "two-sided"
    /\ result = initialResult
    /\ pc = "mounted"
    /\ runs = 0
    /\ conversion = noConversion
    /\ page = "calculator"
    /\ \E session \in StoredSessions :
           storedPlates = session[1] /\ storedBars = session[2]
    /\ selectedPlates = <<>>
    /\ sidedness = "both-sides"
    /\ totalWeight = Num(0)
    /\ changed = {"mount-app"}
    /\ lastEvent = noEvent
    /\ edits = 0
    /\ loadoutOps = noOps

\* The plates of the reverse calculator are put on and taken off in
\* SpecReverse.
Next ==
    \/ Commit
    \/ SetPage
    \/ ToggleUnit
    \/ ChangeTargetWeight
    \/ StepDown
    \/ StepUp
    \/ SelectBar
    \/ SetCalculationType
    \/ AddItem
    \/ UpdateItem
    \/ DeleteItem

Spec == Init /\ [][Next]_vars

----------------------------------------------------------------------------
(* The reverse calculator from its mounting *)

\* The inventories the reverse calculator mounts with: the defaults, the
\* lists of an earlier session, and a session without bars.
ReverseInventories ==
    { <<defaultPlates, defaultBars>>,
      <<savedPlates, savedBars>>,
      <<defaultPlates, <<>> >> }

\* The user has gone to the reverse calculator (line 594): its state is the
\* initial state of lines 419-422.
InitReverse ==
    /\ isLoading = FALSE
    /\ \E inventory \in ReverseInventories :
           /\ plates = inventory[1]
           /\ bars = inventory[2]
           /\ storedPlates = stringify(inventory[1])
           /\ storedBars = stringify(inventory[2])
    /\ unit \in {"lbs", "kg"}
    /\ targetWeight = NumberInput(135000)
    /\ selectedBarId = ""
    /\ calculationType = "two-sided"
    /\ result = initialResult
    /\ pc = "mounted"
    /\ runs = 0
    /\ conversion = noConversion
    /\ page = "reverse"
    /\ selectedPlates = <<>>
    /\ sidedness = "both-sides"
    /\ totalWeight = Num(0)
    /\ changed = {"mount-page"}
    /\ lastEvent = Event("setPage", "", "reverse", 0)
    /\ edits = 0
    /\ loadoutOps = noOps

NextReverse ==
    \/ Commit
    \/ ToggleUnit
    \/ SelectBar
    \/ addPlate
    \/ removePlate
    \/ SetSidedness

SpecReverse == InitReverse /\ [][NextReverse]_vars

---------------------------------------------------------------------------
(* The vocabulary of the claims *)

\* The result kind of the specification that a message of the code stands for.
statusOf(res) ==
    CASE res.message.text = "Loading inventory..." -> "needs-bar-selection"
      [] res.message.text = "Please select a bar." -> "needs-bar-selection"
      [] res.message.text = "Enter a valid target weight." -> "invalid-target"
      [] res.message.text = "Weight must be at least the bar weight"
             -> "below-bar-weight"
      [] res.message.text = "Just the bar" -> "bar-only"
      [] res.message.text = "Total:" -> "exact-match"
      [] res.message.text = "Closest is" -> "closest-approximation"
      [] OTHER -> "none"

ResultKinds ==
    {"needs-bar-selection", "invalid-target", "below-bar-weight", "bar-only",
     "exact-match", "closest-approximation"}

Resolved == pc = "resolved"

\* A bar is chosen and the bar list holds it.
BarPresent ==
    /\ selectedBarId # ""
    /\ \E i \in 1..Len(bars) : bars[i].id = selectedBarId

TheBar == bars[CHOOSE i \in 1..Len(bars) : bars[i].id = selectedBarId]

TheTarget == targetInLbsOf(targetWeight, unit)

\* The target is a number and not negative.
TargetValid == ~IsNaN(TheTarget) /\ TheTarget.n >= 0

Sides == IF calculationType = "two-sided" THEN 2 ELSE 1

\* The sidedness of the reverse calculator that a loading mode corresponds to.
Sidedness == IF calculationType = "two-sided" THEN "both-sides" ELSE "one-side"

\* The achieved total of the returned loadout, in thousandths of a pound.
Achieved == TheBar.weight + Sides * SumOfWeights(result.plates)

\* How often the returned loadout refers to the plate type with the id.
Uses(id) ==
    Cardinality({k \in 1..Len(result.plates) : result.plates[k].id = id})

---------------------------------------------------------------------------
(* The claims *)

\* C1: round trip.  Whenever the forward resolver reports a total (a target
\* not below the bar's weight), the reverse accumulator's total over the
\* returned per-side loadout, with the same bar, the corresponding sidedness
\* and the same display unit, is the total the forward resolver reports:
\* formatted alike after greedy selection, the bar's weight for bar-only.
RoundTripConsistency ==
    LET total == totalWeightOf(result.plates, bars, selectedBarId,
                               Sidedness, unit)
    IN  /\ Resolved /\ statusOf(result) \in {"exact-match", "closest-approximation"}
            => formatWeight(total) = result.message.amount
        /\ Resolved /\ statusOf(result) = "bar-only"
            => [value |-> total, fixed |-> FALSE] = result.message.amount

RoundTripReached ==
    /\ Resolved
    /\ statusOf(result) = "closest-approximation"
    /\ Len(result.plates) >= 2
    /\ unit = "kg"
    /\ calculationType = "one-sided"

\* C2: inventory respect.  The returned loadout refers to every plate type
\* of the inventory at most floor(quantity / sidesMultiplier) times.
InventoryRespect ==
    Resolved =>
        \A i \in 1..Len(plates) :
            Uses(plates[i].id) <= plates[i].quantity \div Sides

\* C3: closed result taxonomy.  The effect never throws, and once it has
\* run the result is of one of the six kinds, whatever the inputs.
ClosedTaxonomy ==
    /\ pc # "thrown"
    /\ Resolved => statusOf(result) \in ResultKinds

ClosedTaxonomyReached ==
    /\ Resolved
    /\ selectedBarId = "bar-deleted"
    /\ bars # <<>>
    /\ targetWeight = TextInput
    /\ plates = <<>>

\* C4: with no bar chosen, or a chosen bar that the bar list does not hold
\* (an empty bar list included), the result is needs-bar-selection with an
\* empty loadout, whatever the target, the mode and the plates.
NeedsBarSelection ==
    Resolved /\ ~BarPresent =>
        /\ statusOf(result) = "needs-bar-selection"
        /\ result.plates = <<>>

NeedsBarSelectionReached ==
    /\ Resolved
    /\ selectedBarId = "bar-deleted"
    /\ bars # <<>>
    /\ plates = scenarioPlates
    /\ targetWeight = NumberInput(135000)
    /\ statusOf(result) = "needs-bar-selection"

\* C5: the resolvers never mutate the inventory.  No step of a resolver
\* changes the plate list or the bar list: the elements and their order.
InventoryNeverMutated == [][plates' = plates /\ bars' = bars]_vars

\* C6: monotonic loadout.  The returned per-side loadout is non-increasing
\* in weight, whatever the order of the plate list on entry.
MonotonicLoadout ==
    Resolved =>
        \A k \in 1..(Len(result.plates) - 1) :
            result.plates[k].weight >= result.plates[k + 1].weight

\* The list that was stored unsorted has been resolved into a loadout of
\* more than one weight.
MonotonicLoadoutReached ==
    /\ Resolved
    /\ unsortedPlates # sortByWeight(unsortedPlates)
    /\ plates = sortByWeight(unsortedPlates)
    /\ Len(result.plates) >= 2
    /\ result.plates[1].weight > result.plates[Len(result.plates)].weight

\* C7: determinism and idempotence.  A resolution run again on the inputs
\* of the one before it, in the state that one left, sets the same result:
\* the same loadout in the same order, the same status and message.
Idempotence == [][runs >= 1 => result' = result]_vars

IdempotenceReached ==
    /\ runs >= 2
    /\ Resolved
    /\ plates = sortByWeight(tiedPlates)
    /\ Len(result.plates) >= 2

\* C8: classification.  After greedy selection the status is exact-match
\* when the achieved total and the target, each rounded to 3 decimals,
\* differ by at most 0.01 lbs, and closest-approximation otherwise; target
\* 46 on the 45 lbs bar, two-sided, with no plate lighter than 2.5 gives an
\* empty loadout, the bar's weight as total, and closest-approximation.
Classification ==
    /\ Resolved /\ statusOf(result) \in {"exact-match", "closest-approximation"}
        => LET target == roundToDecimal(TheTarget).n
               within == /\ Achieved - target <= Tolerance
                         /\ target - Achieved <= Tolerance
           IN  statusOf(result) = (IF within THEN "exact-match"
                                   ELSE "closest-approximation")
    /\ ( /\ Resolved
         /\ targetWeight = NumberInput(46000) /\ unit = "lbs"
         /\ selectedBarId = "bar-1" /\ bars = defaultBars
         /\ calculationType = "two-sided"
         /\ \A i \in 1..Len(plates) : plates[i].weight >= 2500 )
        => /\ result.plates = <<>>
           /\ statusOf(result) = "closest-approximation"
           /\ result.message.amount = [value |-> Num(45000), fixed |-> FALSE]

ClassificationReached ==
    /\ Resolved
    /\ targetWeight = NumberInput(46000) /\ unit = "lbs"
    /\ selectedBarId = "bar-1" /\ bars = defaultBars
    /\ calculationType = "two-sided"
    /\ plates = scenarioPlates
    /\ statusOf(result) = "closest-approximation"

\* C9 as stated: with a chosen bar and a valid target the result is bar-only
\* with an empty loadout if |target - bar.weight| < 0.01, and only then.
BarOnlyRule ==
    Resolved /\ BarPresent /\ TargetValid =>
        LET near == AbsLessThan(Minus(TheTarget, TheBar.weight), Tolerance)
        IN  /\ near => statusOf(result) = "bar-only" /\ result.plates = <<>>
            /\ statusOf(result) = "bar-only" => near

\* C9 as amended: with a chosen bar and a valid target that is not below the
\* bar's weight, the result is bar-only with an empty loadout if
\* target - bar.weight < 0.01, and only then; a target below the bar's
\* weight, however near, gives below-bar-weight.
BarOnlyRuleNotBelow ==
    Resolved /\ BarPresent /\ TargetValid =>
        LET near == /\ ~LessThan(TheTarget, TheBar.weight)
                    /\ AbsLessThan(Minus(TheTarget, TheBar.weight), Tolerance)
        IN  /\ near => statusOf(result) = "bar-only" /\ result.plates = <<>>
            /\ statusOf(result) = "bar-only" => near

BarOnlyReached ==
    /\ Resolved
    /\ statusOf(result) = "bar-only"
    /\ targetWeight = NumberInput(45004)
    /\ plates = scenarioPlates

\* C10: below-bar rule.  With a chosen bar and a valid target that is, in
\* pounds, less than the bar's weight, the result is below-bar-weight with
\* an empty loadout, and its message shows the bar's weight in the display
\* unit.
BelowBarRule ==
    Resolved /\ BarPresent /\ TargetValid /\ TheTarget.n < TheBar.weight =>
        /\ statusOf(result) = "below-bar-weight"
        /\ result.plates = <<>>
        /\ result.message.amount =
               [value |-> convertWeight(Num(TheBar.weight), unit, "lbs"),
                fixed |-> FALSE]
        /\ result.message.unit = unit

BelowBarReached ==
    /\ Resolved
    /\ statusOf(result) = "below-bar-weight"
    /\ unit = "kg"
    /\ targetWeight = NumberInput(20000)
    /\ plates = scenarioPlates

\* C11: invalid-target rule.  With a chosen bar that the bar list holds, a
\* target input that is no number, or a negative number in either display
\* unit, gives invalid-target with an empty loadout and a message without an
\* amount: no fault, and no later step has set the result.
InvalidTargetRule ==
    ( /\ Resolved /\ BarPresent
      /\ targetWeight.kind # "number" \/ targetWeight.milli < 0 )
        => /\ statusOf(result) = "invalid-target"
           /\ result.plates = <<>>
           /\ result.message.amount = NoAmount

InvalidTargetReached ==
    /\ Resolved /\ BarPresent
    /\ targetWeight = NumberInput(-5000)
    /\ unit = "kg"
    /\ plates = scenarioPlates
    /\ statusOf(result) = "invalid-target"

---------------------------------------------------------------------------
(* The greedy loop, as the claims about its iterations see it *)

\* The effect has run the greedy loop.
GreedyRan ==
    Resolved /\ statusOf(result) \in {"exact-match", "closest-approximation"}

\* Every plate type is owned a non-negative number of times.
QuantitiesNotNegative == \A i \in 1..Len(plates) : plates[i].quantity >= 0

\* The iterations of the loop that set the result.
StepsTaken ==
    greedySteps(sortByWeight(plates), 1, Sides,
                DividedBy(Minus(TheTarget, TheBar.weight), Sides))

\* C16: greedy step.  For every plate type of positive weight the loadout
\* holds min(floor(round3(remaining / weight) + 1e-9),
\* floor(quantity / sidesMultiplier)) references, and none for a type of
\* weight <= 0; target 140 on the 45 lbs bar, two-sided, with 45, 25, 10, 5
\* and 2.5 gives [45, 2.5] per side, a total of 140 and exact-match.
GreedyStepRule ==
    /\ GreedyRan /\ QuantitiesNotNegative
        => /\ \A k \in 1..Len(StepsTaken) :
                  LET step == StepsTaken[k]
                      needed == platesNeededOf(step.before, step.plate)
                      owned == step.plate.quantity \div Sides
                  IN  ~IsNaN(needed)
                          => Uses(step.plate.id) =
                                 (IF needed.n < owned THEN needed.n ELSE owned)
           /\ \A i \in 1..Len(plates) :
                  plates[i].weight <= 0 => Uses(plates[i].id) = 0
    /\ ( /\ Resolved
         /\ targetWeight = NumberInput(140000) /\ unit = "lbs"
         /\ selectedBarId = "bar-1" /\ bars = defaultBars
         /\ calculationType = "two-sided"
         /\ plates = scenarioPlates )
        => /\ Len(result.plates) = 2
           /\ result.plates[1].weight = 45000
           /\ result.plates[2].weight = 2500
           /\ statusOf(result) = "exact-match"
           /\ result.message.amount = [value |-> Num(140000), fixed |-> FALSE]

\* C17: remaining bookkeeping.  In every iteration the count whose weight is
\* subtracted from the remaining weight is not negative and is the number of
\* references appended, the remaining weight afterwards is the one before
\* minus the weight appended, and it does not increase.
RemainingBookkeeping ==
    GreedyRan /\ QuantitiesNotNegative =>
        \A k \in 1..Len(StepsTaken) :
            LET step == StepsTaken[k]
            IN  ~IsNaN(step.platesToUse) =>
                    /\ step.platesToUse.n >= 0
                    /\ step.platesToUse.n = Uses(step.plate.id)
                    /\ step.after =
                           roundToDecimal(Minus(step.before,
                               Uses(step.plate.id) * step.plate.weight))
                    /\ step.after.n <= roundToDecimal(step.before).n

\* C18: no overload.  After greedy selection on a target of at most 3
\* decimals in pounds, the achieved total is at most the target plus 0.01.
NoOverload ==
    GreedyRan /\ QuantitiesNotNegative /\ IsWhole(TheTarget) =>
        Achieved <= TheTarget.n + Tolerance


----------------------------------------------------------------------------
(* Unit conversion *)

\* Whether x * xTimes is y * yTimes up to the precision of a double: they
\* differ by at most y * yTimes / 2^51, the error of two roundings to 53
\* binary digits.
WithinDoublePrecision(x, xTimes, y, yTimes) ==
    LET low  == IF x.e < y.e THEN x.e ELSE y.e
        a    == BigMul(BigMul(x.m, BigFromNat(xTimes)), BigPow2(x.e - low))
        b    == BigMul(BigMul(y.m, BigFromNat(yTimes)), BigPow2(y.e - low))
        diff == IF BigLess(a, b) THEN BigSub(b, a) ELSE BigSub(a, b)
    IN  ~BigLess(b, BigMul(diff, BigPow2(SignificandBits - 2)))

\* The call of convertWeight has left everything but its result alone.
ConversionIsPure ==
    /\ plates = <<>> /\ bars = <<>> /\ result = initialResult
    /\ unit = "lbs" /\ targetWeight = EmptyInput /\ selectedBarId = ""

\* C15 as stated: convertWeight returns the weight unchanged between equal
\* units, the weight times k from lbs to kg and the weight over k from kg to
\* lbs, changes nothing else, and a weight converted from lbs to kg and back
\* to lbs is the original weight.
ConversionRoundTripExact ==
    LET c == conversion
    IN  /\ c.stage \in {"returned", "restored"} =>
            /\ c.unit = c.baseUnit => c.returned = c.weight
            /\ c.unit = "kg" /\ c.baseUnit = "lbs"
                   => c.returned = DoubleTimes(c.weight, lbsToKg)
            /\ c.unit = "lbs" /\ c.baseUnit = "kg"
                   => c.returned = DoubleOver(c.weight, lbsToKg)
            /\ ConversionIsPure
        /\ c.stage = "restored" /\ c.unit = "kg" /\ c.baseUnit = "lbs"
               => c.restored = c.weight

\* C15 as the code has it: convertWeight returns the weight unchanged between
\* equal units, the weight times 0.453592 from lbs to kg and the weight over
\* 0.453592 from kg to lbs, each up to the precision of a double, changes
\* nothing else, and a weight converted to the other unit and back is the
\* original weight up to the precision of a double.
ConversionRule ==
    LET c == conversion
    IN  /\ c.stage \in {"returned", "restored"} =>
            /\ c.unit = c.baseUnit => c.returned = c.weight
            /\ c.unit = "kg" /\ c.baseUnit = "lbs"
                   => WithinDoublePrecision(c.returned, Million,
                                            c.weight, lbsToKgMicro)
            /\ c.unit = "lbs" /\ c.baseUnit = "kg"
                   => WithinDoublePrecision(c.returned, lbsToKgMicro,
                                            c.weight, Million)
            /\ ConversionIsPure
        /\ c.stage = "restored"
               => WithinDoublePrecision(c.restored, 1, c.weight, 1)

\* A weight in lbs has been converted to kg and back, and the two roundings
\* have moved it.
ConversionRounded ==
    /\ conversion.stage = "restored"
    /\ conversion.unit = "kg" /\ conversion.baseUnit = "lbs"
    /\ conversion.restored # conversion.weight


----------------------------------------------------------------------------
(* The reverse calculator *)

\* How often a loadout refers to the plate.
References(loadout, plate) ==
    Cardinality({k \in 1..Len(loadout) : loadout[k] = plate})

\* C12: reverse accumulation.  Once the effects have run after any adding
\* and removing of plates, selecting of bars and changing of the sidedness,
\* the total of the reverse calculator is the weight of the selected bar (0
\* without a bar) plus the weights of the plates of one side times 2 for
\* both sides and times 1 for one side, shown in the display unit; no plates
\* and a bar of weight 0 give the total 0.
ReverseAccumulation ==
    LET barWeight == IF BarPresent THEN TheBar.weight ELSE 0
        m == IF sidedness = "both-sides" THEN 2 ELSE 1
        total == barWeight + SumOfWeights(selectedPlates) * m
    IN  Idle /\ page = "reverse" =>
            /\ unit = "lbs" => totalWeight = Num(total)
            /\ unit = "kg" => totalWeight = TimesLbsToKg(Num(total))
            /\ selectedPlates = <<>> /\ barWeight = 0
                   => IsWhole(totalWeight) /\ totalWeight.n = 0

\* Plates are on one side only, on a bar that weighs something, and the
\* total is shown.
ReverseAccumulated ==
    /\ Idle /\ page = "reverse"
    /\ selectedPlates # <<>>
    /\ sidedness = "one-side"
    /\ BarPresent /\ TheBar.weight > 0

----------------------------------------------------------------------------
(* The calculator within the application *)

\* C14: recomputation on change.  Whatever has been changed (the target, the
\* selected bar, the loading mode, the display unit, the plates or the bars
\* of the inventory), once the effects that the change triggers have run,
\* the result the calculator shows is the resolution of the inputs as they
\* are now.
RecomputationOnChange ==
    Idle /\ page = "calculator" =>
        result = resolution(isLoading, plates, bars, selectedBarId,
                            calculationType, targetWeight, unit).result

\* The inventory has been edited, the unit is kg, the loading mode has just
\* been changed, and the calculator shows a loadout.
RecomputedAfterChanges ==
    /\ Idle /\ page = "calculator"
    /\ edits > 0
    /\ unit = "kg"
    /\ lastEvent.name = "setCalculationType"
    /\ statusOf(result) \in {"exact-match", "closest-approximation"}
    /\ result.plates # <<>>

----------------------------------------------------------------------------
(* The inventory and its store *)

\* C19: the sentinel 'no-bar'.  The seed list of bars holds exactly one bar
\* of the id 'no-bar', of weight 0, and whatever is added, updated and
\* deleted, every bar of the id 'no-bar' has the weight 0.
NoBarSentinel ==
    /\ Cardinality({i \in 1..Len(defaultBars) : defaultBars[i].id = "no-bar"}) = 1
    /\ \A i \in 1..Len(defaultBars) :
           defaultBars[i].id = "no-bar" => defaultBars[i].weight = 0
    /\ \A i \in 1..Len(bars) : bars[i].id = "no-bar" => bars[i].weight = 0

\* C20: the order of persistence.  While the inventory is loading, nothing
\* overwrites the stored lists: they stay as they are, or become the seed
\* lists that the load effect itself writes on the first visit.  Once an
\* item has been added, updated or deleted and the effects have run, the
\* stored plates are the plates in memory and the stored bars the bars in
\* memory.
PersistenceOrdering ==
    /\ [][ isLoading =>
             /\ storedPlates' \in {storedPlates, stringify(defaultPlates)}
             /\ storedBars' \in {storedBars, stringify(defaultBars)}
             /\ storedPlates' # stringify(<<>>)
             /\ storedBars' # stringify(<<>>) ]_vars
    /\ [](Idle /\ lastEvent.name \in {"addItem", "updateItem", "deleteItem"}
             => /\ storedPlates = stringify(plates)
                /\ storedBars = stringify(bars))

\* A stored session has been loaded, a plate has been updated, and the
\* effects have run.
PersistedAfterEdit ==
    /\ Idle
    /\ lastEvent.name = "updateItem" /\ lastEvent.type = "plates"
    /\ plates # defaultPlates
    /\ storedPlates.kind = "json"


\* No item of the list is lighter than the item after it.
NonIncreasing(list) ==
    \A k \in 1..(Len(list) - 1) : list[k].weight >= list[k + 1].weight

\* C21: the order of the inventory.  From the seed lists (and from the
\* lists of an earlier session), whatever is added, updated and deleted, the
\* plates and the bars are each in the order of their weights, heaviest
\* first; and deleteItem takes the item of its id out of its list and
\* leaves the items before it and those after it, as they were and in their
\* order, and leaves the other list alone.
InventoryOrdering ==
    /\ [](NonIncreasing(plates) /\ NonIncreasing(bars))
    /\ [][ changed = {} /\ changed' # {} /\ lastEvent'.name = "deleteItem" =>
             LET ofPlates == lastEvent'.type = "plates"
                 before == IF ofPlates THEN plates ELSE bars
                 after  == IF ofPlates THEN plates' ELSE bars'
                 at     == findBar(before, lastEvent'.id)
             IN  /\ at # 0
                 /\ after = SubSeq(before, 1, at - 1)
                            \o SubSeq(before, at + 1, Len(before))
                 /\ IF ofPlates THEN bars' = bars ELSE plates' = plates ]_vars

\* A plate has been saved that is heavier than other plates and stands
\* before them, and then a plate has been deleted and others are left.
InventoryReordered ==
    /\ lastEvent.name = "deleteItem" /\ lastEvent.type = "plates"
    /\ Len(plates) >= 3
    /\ \E k \in 1..(Len(plates) - 1) :
           /\ plates[k].weight = plateForm.weight
           /\ plates[k + 1].weight < plateForm.weight


\* C22: the order of the reverse loadout.  From the empty loadout of the
\* mounted page, whatever plates are added and removed, the plates of one
\* side are in the order of their weights, heaviest first, and there are as
\* many of them as addPlate has added less those that removePlate has
\* removed at a position of the loadout.
LoadoutOrdering ==
    page = "reverse" =>
        /\ NonIncreasing(selectedPlates)
        /\ Len(selectedPlates) = loadoutOps.adds - loadoutOps.removes

\* After a removal, a plate has been added that is heavier than the plate
\* left, and stands before it.
LoadoutReordered ==
    /\ page = "reverse"
    /\ lastEvent.name = "addPlate"
    /\ loadoutOps.removes >= 1
    /\ Len(selectedPlates) = 2
    /\ selectedPlates[1].id = lastEvent.id
    /\ selectedPlates[1].weight > selectedPlates[2].weight

===========================================================================
